---------------------------- MODULE Spec2Model ----------------------------
(***************************************************************************)
(* Model of src/pkg/models/isahp.py: the Instance-wise Self-Attentive      *)
(* Hawkes Process.                                                         *)
(*                                                                         *)
(* Tensors are functions over 0-based index ranges, nested in the order of *)
(* the tensor's dimensions: a tensor of shape (B, T, K) is                 *)
(* [0..B-1 -> [0..T-1 -> [0..K-1 -> value]]].                              *)
(*                                                                         *)
(* Arithmetic is integer fixed point.  Timestamps are integers.  The       *)
(* exponential is taken to base 2 with a floored exponent, tanh is the     *)
(* fixed-point map x/(1+x), log is the floored base-2 logarithm: they are  *)
(* monotone like the functions they stand for, which is all the claims     *)
(* checked here use.  A softmax probability is kept as an exact fraction   *)
(* [num, den].                                                             *)
(***************************************************************************)
EXTENDS Integers, Sequences, FiniteSets, TLC

VARIABLES
    batch,      \* the padded batch handed to the last operation: (B, L) rows [t, k]
    src_mask,   \* MaskBatch.src_mask of the batch, (B, T, T) booleans
    p_attn,     \* attention probabilities of Attention.forward, (B, T, T) fractions
    taus,       \* the Monte Carlo sample times of _eval_nll, scaled by UDen
    split,      \* what the head split of MultiHeadedAttention.forward computed
    stage,      \* position of the tensor pipeline: "new", "masked", "attended", ...
    cfg,        \* construction arguments [K, D, H] of the model
    params,     \* version of the model parameters (number of optimizer steps)
    rng,        \* state of the global random generator: draws consumed since seeding
    ts,         \* self.ts, the timestamps forward stored last, (B, L+1)
    op,         \* the operation that ran last
    out,        \* what the last operation computed
    calls,      \* the gradient and optimizer calls the last operation made, in order
    twice,      \* the last two operations were evaluate on the same batch
    sameStart,  \* ... and both started from the same generator state
    agree       \* ... and both returned the same metrics [nll, log_sum]

vars == <<batch, src_mask, p_attn, taus, split, stage, cfg, params, rng, ts, op, out,
          calls, twice, sameStart, agree>>

tensorVars == <<src_mask, p_attn, taus, split, stage>>
modelVars == <<cfg, params, rng, ts, op, out, calls, twice, sameStart, agree>>

---------------------------------------------------------------------------
(* Bounds of the model *)

MaxBatch == 2       \* sequences in a batch of the dataloader
MaxSeqs == 1        \* sequences in a generated batch of the tensor functions
MaxLen == 4         \* events in a sequence
MaxTime == 1        \* largest timestamp of a generated sequence
MaxWeight == 1      \* largest magnitude of a projection weight
MaxHeads == 4       \* largest num_head
MaxHeadDim == 2     \* largest d_k = hidden_size / num_head
MaxHidden == 4      \* largest hidden_size of a constructed model
NumTypes == 2       \* n_types of the constructed model
MaxSteps == 1       \* optimizer steps taken
MaxRandCalls == 2   \* torch.rand calls since the generator was seeded
MaxRegWeight == 1   \* largest type_reg and l1_reg weight
UDen == 2           \* resolution of a uniform sample: u = n / UDen, n in 0..UDen-1

(* Program constants *)

PadValue == 0       \* pad=0. of MaskBatch
MaskedScore == -1000000000  \* scores.masked_fill(mask == 0., -1e9)

NMc == 20           \* n_mc_samples = 20 of _eval_nll

(* Fixed point *)

SoftmaxOne == 64    \* the softmax weight exp(0)
UnderflowAt == 32   \* exp(-d) is 0 from d = UnderflowAt on
FracBits == 4       \* fraction bits of an intensity: 1.0 is 2^FracBits

---------------------------------------------------------------------------
(* Indexing helpers *)

Idx(n) == 0..(n - 1)

Size(f) == Cardinality(DOMAIN f)

RECURSIVE SumTo(_, _)
\* sum of f[0] .. f[n-1]
SumTo(f, n) == IF n = 0 THEN 0 ELSE SumTo(f, n - 1) + f[n - 1]

Sum(f) == SumTo(f, Size(f))

Abs(x) == IF x < 0 THEN -x ELSE x

MaxOf(S) == CHOOSE x \in S : \A y \in S : y <= x

BatchSize(b) == Size(b)

PadLen(b) == IF Size(b) = 0 THEN 0 ELSE Size(b[0])

ZeroRow == [t |-> 0, k |-> 0]

\* the function f with its elements computed once (the same function); a
\* function written [x \in S |-> e] computes e again at every application
Dense(f) == f @@ <<>>

\* the same for a function of functions, to depth 2, 3 and 4
Dense2(f) == Dense([x \in DOMAIN f |-> Dense(f[x])])

Dense3(f) == Dense([x \in DOMAIN f |-> Dense2(f[x])])

Dense4(f) == Dense([x \in DOMAIN f |-> Dense3(f[x])])

---------------------------------------------------------------------------
(* EventSeqDataset.collate_fn: pad_sequence(X, batch_first=True) pads every *)
(* sequence of X with zero rows to the length of the longest.               *)

collate_fn(X) ==
    LET L == MaxOf({Size(X[b]) : b \in DOMAIN X})
    IN  [b \in DOMAIN X |->
            [p \in Idx(L) |-> IF p < Size(X[b]) THEN X[b][p] ELSE ZeroRow]]

---------------------------------------------------------------------------
(* Masking *)

\* subsequent_mask with the diagonal masked too (triu with k=0)
subsequent_mask_strict(size) == [i \in Idx(size) |-> [j \in Idx(size) |-> ~(j >= i)]]

\* subsequent_mask(size): triu(ones, k=1) == 0, true where column <= row
subsequent_mask(size) == [i \in Idx(size) |-> [j \in Idx(size) |-> ~(j >= i + 1)]]

\* (tgt != pad): the padding mask of a (B, T) tensor
PaddingMask(tgt, pad) == [b \in DOMAIN tgt |-> [i \in DOMAIN tgt[b] |-> tgt[b][i] # pad]]

\* MaskBatch.make_std_mask(tgt, pad): tgt_mask (B,1,T) & its transpose (B,T,1)
\* & subsequent_mask (1,T,T), broadcast to (B,T,T)
make_std_mask(tgt, pad) ==
    LET pm == PaddingMask(tgt, pad)
        T == PadLen(tgt)
        sub == subsequent_mask(T)
    IN  [b \in DOMAIN tgt |->
            [i \in Idx(T) |-> [j \in Idx(T) |-> pm[b][j] /\ pm[b][i] /\ sub[i][j]]]]

\* batch[:, 1:, 0]: the timestamps of events 1 .. L-1
Tgt(b) == [s \in DOMAIN b |-> [i \in Idx(PadLen(b) - 1) |-> b[s][i + 1].t]]

\* MaskBatch(batch[:,1:,0], pad=0.).src_mask
MaskBatch(b) == make_std_mask(Tgt(b), PadValue)

---------------------------------------------------------------------------
(* Fixed-point numerics *)

RECURSIVE Pow2(_)
Pow2(n) == IF n <= 0 THEN 1 ELSE 2 * Pow2(n - 1)

\* exp(-d) of a weight num/den for d >= 0: the weight halves d times; past
\* UnderflowAt halvings a float is exactly 0
Exp2Neg(num, d) == IF d >= UnderflowAt THEN 0 ELSE num \div Pow2(d)

---------------------------------------------------------------------------
(* InstancewiseSelfAttentiveHawkesProcesses.forward, the time features *)

\* self.ts = F.pad(event_seqs[:, :, 0], (1, 0)): a zero in front of the timestamps
ForwardTs(b) ==
    [s \in DOMAIN b |-> [p \in Idx(PadLen(b) + 1) |-> IF p = 0 THEN 0 ELSE b[s][p - 1].t]]

\* dt = ts[:, 1:] - ts[:, :-1]; temp_feat = dt[:, :-1]
TempFeat(b) ==
    LET t == ForwardTs(b)
    IN  [s \in DOMAIN b |-> [i \in Idx(PadLen(b) - 1) |-> t[s][i + 1] - t[s][i]]]

---------------------------------------------------------------------------
(* Attention.forward for one head of width d_k = 1, where                  *)
(* scores[i][j] = query[i] * key[j] / sqrt(1).                             *)

\* the scores left as they are before the softmax
MaskScoresSkipped(scores, mask) == scores

\* scores.masked_fill(mask == 0., -1e9)
MaskScores(scores, mask) ==
    [i \in DOMAIN scores |->
        [j \in DOMAIN scores[i] |-> IF mask[i][j] THEN scores[i][j] ELSE MaskedScore]]

\* F.softmax(scores, dim=-1) of one row: exp(s - max) / sum, as [num, den]
SoftmaxRow(row) ==
    LET m == MaxOf({row[j] : j \in DOMAIN row})
        w == [j \in DOMAIN row |-> Exp2Neg(SoftmaxOne, m - row[j])]
        den == Sum(w)
    IN  [j \in DOMAIN row |-> [num |-> w[j], den |-> den]]

\* p_attn.masked_fill(mask == 0., 0.)
MaskProbs(p, mask) ==
    [i \in DOMAIN p |->
        [j \in DOMAIN p[i] |-> IF mask[i][j] THEN p[i][j] ELSE [num |-> 0, den |-> p[i][j].den]]]

\* p_attn of Attention.forward(query, key, value, mask) for one sequence
AttentionProbs(query, key, mask) ==
    LET scores == [i \in DOMAIN query |-> [j \in DOMAIN key |-> query[i] * key[j]]]
        masked == MaskScores(scores, mask)
        soft == [i \in DOMAIN masked |-> SoftmaxRow(masked[i])]
    IN  MaskProbs(soft, mask)

\* nn.Linear(1, 1, bias=True) applied along a sequence
Linear1(w, bias, x) == [i \in DOMAIN x |-> w * x[i] + bias]

---------------------------------------------------------------------------
(* _eval_nll, the elapsed times *)

\* torch.tril(torch.cdist(t, t, p=2))[:, 1:, :-1]: row i is event i+1, column j event j
DtArr(b) ==
    LET T == PadLen(b) - 1
    IN  [s \in DOMAIN b |->
            [i \in Idx(T) |->
                [j \in Idx(T) |-> IF j <= i + 1 THEN Abs(b[s][i + 1].t - b[s][j].t) ELSE 0]]]

\* torch.diagonal(dt_arr, offset=0, dim1=1, dim2=2)
DtSeq(b) == LET a == DtArr(b) IN [s \in DOMAIN b |-> [i \in DOMAIN a[s] |-> a[s][i][i]]]

\* torch.tril(repeat_interleave(unsqueeze(dt_seq,-1), n_times, -1)).masked_fill(src_mask == 0., 0.)
DtMeta(b, mask) ==
    LET q == DtSeq(b)
    IN  [s \in DOMAIN b |->
            [i \in DOMAIN q[s] |->
                [j \in DOMAIN q[s] |-> IF j <= i /\ mask[s][i][j] THEN q[s][i] ELSE 0]]]

\* dt_arr masked, without dt_meta taken off
DtOffsetWhole(b, mask) ==
    LET a == DtArr(b)
    IN  [s \in DOMAIN b |->
            [i \in DOMAIN a[s] |->
                [j \in DOMAIN a[s] |-> IF mask[s][i][j] THEN a[s][i][j] ELSE 0]]]

\* (dt_arr - dt_meta).masked_fill(src_mask == 0., 0.)
DtOffset(b, mask) ==
    LET a == DtArr(b)
        m == DtMeta(b, mask)
    IN  [s \in DOMAIN b |->
            [i \in DOMAIN a[s] |->
                [j \in DOMAIN a[s] |-> IF mask[s][i][j] THEN a[s][i][j] - m[s][i][j] ELSE 0]]]

\* taus = dt_meta * rand + dt_offset, for uniform numerators u[s][i][j][n]
\* (u = numerator / UDen); the result is scaled by UDen
Taus(b, mask, u) ==
    LET m == DtMeta(b, mask)
        o == DtOffset(b, mask)
    IN  [s \in DOMAIN b |->
            [i \in DOMAIN m[s] |->
                [j \in DOMAIN m[s] |->
                    [n \in DOMAIN u[s][i][j] |-> m[s][i][j] * u[s][i][j][n] + o[s][i][j] * UDen]]]]

---------------------------------------------------------------------------
(* MultiHeadedAttention.forward, the head split.  An element of            *)
(* attn_repeat * value_repeat is kept as the term that names it:           *)
(* [h, i, j, d] stands for attn[b,h,i,j] * value[b,h,j,d].                 *)

HeadTerm(h, i, j, d) == [h |-> h, i |-> i, j |-> j, d |-> d]

\* attn_repeat[:, lo:hi] * value_repeat[:, lo:hi], shape (hi-lo, T, T, d_k)
SliceProduct(lo, hi, T, dk) ==
    [h \in Idx(hi - lo) |->
        [i \in Idx(T) |-> [j \in Idx(T) |-> [d \in Idx(dk) |-> HeadTerm(lo + h, i, j, d)]]]]

\* x.contiguous().view(batch_size, T, T, -1) of x of shape (n, T, T, d_k):
\* the elements in memory order, regrouped as (T, T, n * d_k)
ViewTT(x, n, T, dk) ==
    LET W == n * dk
        At(f) == x[f \div (T * T * dk)][(f \div (T * dk)) % T][(f \div dk) % T][f % dk]
    IN  [i \in Idx(T) |-> [j \in Idx(T) |-> [c \in Idx(W) |-> At((i * T + j) * W + c)]]]

\* int(self.h/2)
HalfHeads(H) == H \div 2

\* in_features of alpha_layer and gamma_layer: int(self.d_k*self.h/2)
HalfWidth(H, dk) == (dk * H) \div 2

\* the first call of lines 147-152 that raises, or "none": view(B, T, T, -1)
\* of a tensor without elements, then a Linear fed a vector of another width
\* than its in_features
SplitError(H, dk, T) ==
    IF HalfHeads(H) * T * T * dk = 0 THEN "view"
    ELSE IF HalfHeads(H) * dk # HalfWidth(H, dk) THEN "alpha_layer"
    ELSE IF (H - HalfHeads(H)) * dk # HalfWidth(H, dk) THEN "gamma_layer"
    ELSE "none"

\* the input of alpha_layer at every pair (i,j)
AlphaInput(H, dk, T) == ViewTT(SliceProduct(0, HalfHeads(H), T, dk), HalfHeads(H), T, dk)

\* the input of gamma_layer at every pair (i,j)
GammaInput(H, dk, T) ==
    ViewTT(SliceProduct(HalfHeads(H), H, T, dk), H - HalfHeads(H), T, dk)

\* lines 141-150 for one sequence: the inputs of alpha_layer and gamma_layer
\* under masked_fill(mask == 0., 0.), or the error raised
HeadSplit(H, dk, T, mask) ==
    LET Masked(x) == [i \in Idx(T) |->
                        [j \in Idx(T) |->
                            IF mask[i][j] THEN [live |-> TRUE, in |-> x[i][j]]
                            ELSE [live |-> FALSE, in |-> <<>>]]]
        err == SplitError(H, dk, T)
    IN  IF err # "none"
        THEN [H |-> H, dk |-> dk, err |-> err, v_alpha |-> <<>>, v_gamma |-> <<>>]
        ELSE [H |-> H, dk |-> dk, err |-> err,
              v_alpha |-> Masked(AlphaInput(H, dk, T)),
              v_gamma |-> Masked(GammaInput(H, dk, T))]

---------------------------------------------------------------------------
(* Intensities in fixed point *)

One == Pow2(FracBits)

\* torch.tanh
Tanh(x) == (One * x) \div (One + Abs(x))

RECURSIVE FloorLog2(_)
FloorLog2(c) == IF c <= 1 THEN 0 ELSE 1 + FloorLog2(c \div 2)

\* torch.log of an intensity c / One; log(0) is -inf
Log(c) == IF c <= 0 THEN -(One * UnderflowAt) ELSE One * (FloorLog2(c) - FracBits)

\* torch.sum(x, -3) of a tensor of rank r sums dimension r - 3
SumDim(r) == r - 3

\* v_alpha * v_gamma * torch.exp(-v_gamma * dt) of one element; dt = num / den
DecayTerm(a, g, num, den) == Exp2Neg(a * g, (g * num) \div den)

\* index of a dimension of size n in a broadcast: a dimension of size 1 repeats
Bc(i, n) == IF n = 1 THEN 0 ELSE i

---------------------------------------------------------------------------
(* InstancewiseSelfAttentiveHawkesProcesses.forward.  The learned maps are *)
(* not computed: the output of a layer is read from a table keyed by the   *)
(* parameter version, the event types its input comes from, and the output *)
(* channel.  The values are positive, as Sigmoid and Softplus give.        *)

\* mu_layer: Linear(d_model, d_k) + Sigmoid, in (0, 1)
MuLayer(p, x, c) == (One \div 4) * (1 + ((p + x + c) % 2))

\* alpha_layer: Linear + Softplus(beta=1.0)
AlphaLayer(p, xi, xj, c) == (One \div 2) * (1 + ((p + xi + xj + c) % 2))

\* gamma_layer: Linear + Softplus(beta=10.0), a rate per unit of time
GammaLayer(p, xi, xj, c) == 1 + ((p + xj + c) % 2)

\* self.d_k = d_model // h
HeadDim(c) == c.D \div c.H

\* forward(event_seqs, src_mask): (v_mu, v_alpha, v_gamma), or the error raised
\* by multiheadattention.forward
Forward(c, p, b, mask) ==
    LET T == PadLen(b) - 1
        dk == HeadDim(c)
        err == SplitError(c.H, dk, T)
        ain == AlphaInput(c.H, dk, T)
        gin == GammaInput(c.H, dk, T)
        K(s, i) == b[s][i].k
    IN  IF err # "none"
        THEN [err |-> err, dk |-> dk, v_mu |-> <<>>, v_alpha |-> <<>>, v_gamma |-> <<>>]
        ELSE [err |-> "none", dk |-> dk,
              v_mu |-> Dense3([s \in DOMAIN b |->
                          [i \in Idx(T) |-> [x \in Idx(dk) |-> MuLayer(p, K(s, i), x)]]]),
              v_alpha |-> Dense4([s \in DOMAIN b |->
                          [i \in Idx(T) |->
                              [j \in Idx(T) |->
                                  [x \in Idx(dk) |->
                                      IF mask[s][i][j]
                                      THEN AlphaLayer(p, K(s, ain[i][j][0].i),
                                                      K(s, ain[i][j][0].j), x)
                                      ELSE 0]]]]),
              v_gamma |-> Dense4([s \in DOMAIN b |->
                          [i \in Idx(T) |->
                              [j \in Idx(T) |->
                                  [x \in Idx(dk) |->
                                      IF mask[s][i][j]
                                      THEN GammaLayer(p, K(s, gin[i][j][0].i),
                                                      K(s, gin[i][j][0].j), x)
                                      ELSE 0]]]])]

---------------------------------------------------------------------------
(* state_decay(v_mu, v_alpha, v_gamma, dt_arr):                            *)
(* tanh(v_mu + sum(v_alpha * v_gamma * exp(-v_gamma * dt_arr), -3))        *)

\* on tensors of rank 4, (B, T, T, d_k) with dt (B, T, T, 1), as _eval_nll
\* line 227 and predict_next_event_type line 446 call it: (B, T, d_k)
StateDecay4(mu, alpha, gamma, dt) ==
    [s \in DOMAIN mu |->
        [p \in DOMAIN mu[s] |->
            [c \in DOMAIN mu[s][p] |->
                LET T == Size(mu[s])
                    term == [q \in Idx(T) |->
                               IF SumDim(4) = 1
                               THEN DecayTerm(alpha[s][q][p][c], gamma[s][q][p][c],
                                              dt[s][q][p], 1)
                               ELSE DecayTerm(alpha[s][p][q][c], gamma[s][p][q][c],
                                              dt[s][p][q], 1)]
                IN  Tanh(mu[s][p][c] + Sum(term))]]]

\* on tensors of rank 5, (B, T, T, d_k, 1) with taus (B, T, T, 1, S), as
\* _eval_nll line 236 calls it: (B, T, d_k, S).  tau is scaled by UDen.
StateDecay5(mu, alpha, gamma, tau, S) ==
    [s \in DOMAIN tau |->
        [p \in DOMAIN tau[s] |->
            [c \in DOMAIN mu[0][p] |->
                [n \in Idx(S) |->
                    LET T == Size(tau[s])
                        sm == Bc(s, Size(mu))
                        term == [q \in Idx(T) |->
                                   IF SumDim(5) = 1
                                   THEN DecayTerm(alpha[sm][q][p][c], gamma[sm][q][p][c],
                                                  tau[s][q][p][n], UDen)
                                   ELSE DecayTerm(alpha[sm][p][q][c], gamma[sm][p][q][c],
                                                  tau[s][p][q][n], UDen)]
                    IN  Tanh(mu[sm][p][c] + Sum(term))]]]]

---------------------------------------------------------------------------
(* The per-step mask of the handlers and the selections made with it       *)

\* seq_length = (batch.abs().sum(-1) > 0).sum(-1)
SeqLength(b) ==
    [s \in DOMAIN b |->
        Cardinality({p \in Idx(PadLen(b)) : Abs(b[s][p].t) + Abs(b[s][p].k) > 0})]

\* utils.torch.generate_sequence_mask(lengths): (B, max length), true where
\* position < length
generate_sequence_mask(lengths) ==
    LET M == MaxOf({lengths[s] : s \in DOMAIN lengths})
    IN  [s \in DOMAIN lengths |-> [p \in Idx(M) |-> p < lengths[s]]]

\* mask = generate_sequence_mask(seq_length)[:, 1:]
StepMask(b) ==
    LET g == generate_sequence_mask(SeqLength(b))
    IN  [s \in DOMAIN b |-> [p \in Idx(Size(g[s]) - 1) |-> g[s][p + 1]]]

\* whether dimensions of sizes m and n broadcast
Broadcasts(m, n) == m = n \/ m = 1 \/ n = 1

\* the size of the broadcast of dimensions of sizes m and n
BcSize(m, n) == IF m = 1 THEN n ELSE m

RECURSIVE SelectTo(_, _, _)
\* the elements x[0] .. x[n-1] kept by m, in order
SelectTo(x, m, n) ==
    IF n = 0 THEN <<>>
    ELSE IF m[n - 1] THEN Append(SelectTo(x, m, n - 1), x[n - 1])
    ELSE SelectTo(x, m, n - 1)

\* x.masked_select(mask) of x (B1, T) and mask (B2, W), broadcast
MaskedSelect2(x, B1, T, mask, B2, W) ==
    LET Bo == BcSize(B1, B2)
        Wo == BcSize(T, W)
        n == Bo * Wo
    IN  SelectTo([f \in Idx(n) |-> x[Bc(f \div Wo, B1)][Bc(f % Wo, T)]],
                 [f \in Idx(n) |-> mask[Bc(f \div Wo, B2)][Bc(f % Wo, W)]], n)

RECURSIVE SeqSum(_)
SeqSum(q) == IF q = <<>> THEN 0 ELSE Head(q) + SeqSum(Tail(q))

---------------------------------------------------------------------------
(* _eval_nll(event_seqs, src_mask, mask, v_mu, v_alpha, v_gamma)           *)

\* element f of the tensor the r-th torch.rand call since seeding returns,
\* as the numerator of a uniform value in [0, 1) over UDen
Rand(r, f) == ((f % (r + 3)) + r) % UDen

\* torch.rand(n_batch, n_times, n_times, 1, n_mc_samples)
RandTensor(r, nb, nt, S) ==
    [s \in Idx(nb) |->
        [i \in Idx(nt) |->
            [j \in Idx(nt) |->
                [n \in Idx(S) |-> Rand(r, ((s * nt + i) * nt + j) * S + n)]]]]

\* F.one_hot(event_seqs[:, 1:, 1].long(), self.n_types)
TypeMask(b, K) ==
    [s \in DOMAIN b |->
        [i \in Idx(PadLen(b) - 1) |-> [k \in Idx(K) |-> IF b[s][i + 1].k = k THEN 1 ELSE 0]]]

\* lines 227-230: the log-likelihood sum, from the intensities at the observed gaps
LogSum(b, K, fw, mask) ==
    LET B == BatchSize(b)
        T == PadLen(b) - 1
        W == Size(mask[0])
        cell_t == Dense3(StateDecay4(fw.v_mu, fw.v_alpha, fw.v_gamma, Dense3(DtArr(b))))
        tm == TypeMask(b, K)
        C == BcSize(fw.dk, K)
        picked == [s \in Idx(B) |->
                     [i \in Idx(T) |->
                         Sum([c \in Idx(C) |->
                                Log(cell_t[s][i][Bc(c, fw.dk)]) * tm[s][i][Bc(c, K)]])]]
    IN  SeqSum(MaskedSelect2(picked, B, T, mask, B, W))

\* lines 232-234: taus = dt_meta * torch.rand(..) + dt_offset, scaled by UDen;
\* u is the tensor torch.rand returned, (n_batch, n_times, n_times, 1, S)
SampleTimes(b, src, u, S) ==
    LET B == BatchSize(b)
        T == PadLen(b) - 1
        nb == Size(u)
        m == Dense3(DtMeta(b, src))
        o == Dense3(DtOffset(b, src))
    IN  Dense4([s \in Idx(BcSize(B, nb)) |->
                  [i \in Idx(T) |->
                      [j \in Idx(T) |->
                          [n \in Idx(S) |->
                              m[Bc(s, B)][i][j] * u[Bc(s, nb)][i][j][n]
                                  + o[Bc(s, B)][i][j] * UDen]]]])

\* lines 236-246: n_mc_samples times the integral sum, from the intensities
\* at the sampled times
IntegralSum(b, src, fw, mask, u, S) ==
    LET B == BatchSize(b)
        T == PadLen(b) - 1
        W == Size(mask[0])
        Bo == BcSize(B, Size(u))
        tau == SampleTimes(b, src, u, S)
        cell_tau == Dense4(StateDecay5(fw.v_mu, fw.v_alpha, fw.v_gamma, tau, S))
        q == Dense2(DtSeq(b))
        partial == [s \in Idx(Bo) |->
                      [i \in Idx(T) |->
                          q[Bc(s, B)][i]
                              * Sum([n \in Idx(S) |->
                                       Sum([c \in Idx(fw.dk) |-> cell_tau[s][i][c][n]])])]]
    IN  SeqSum(MaskedSelect2(partial, Bo, T, mask, B, W))

\* the returned log_sum taken after res has been added up into it
NllReturnLogSumIsRes(log_sum, integral_, n_batch) ==
    [res |-> [num |-> (-log_sum) + integral_, den |-> n_batch],
     integral |-> [num |-> integral_, den |-> n_batch],
     log_sum |-> [num |-> (-log_sum) + integral_, den |-> n_batch]]

\* lines 248-252: the returned (res, integral, log_sum)
NllReturn(log_sum, integral_, n_batch) ==
    [res |-> [num |-> (-log_sum) + integral_, den |-> n_batch],
     integral |-> [num |-> integral_, den |-> n_batch],
     log_sum |-> [num |-> -log_sum, den |-> n_batch]]

\* the whole of _eval_nll with self.ts = tsv and r torch.rand calls made
\* since seeding: (res, integral, log_sum) as fractions over n_batch, in
\* units of 1 / (One * n_mc_samples), or the error raised; drew tells
\* whether torch.rand was called
EvalNll(c, b, src, mask, fw, tsv, r) ==
    LET B == BatchSize(b)
        T == PadLen(b) - 1
        W == Size(mask[0])
        n_batch == Size(tsv)
        n_times == IF n_batch = 0 THEN 0 ELSE Size(tsv[0]) - 2
        Fail(e, d) == [err |-> e, drew |-> d, n_batch |-> n_batch, n_times |-> n_times,
                       res |-> <<>>, integral |-> <<>>, log_sum |-> <<>>]
    IN  IF n_batch = 0 THEN Fail("ts", FALSE)
        ELSE IF n_times # T THEN Fail("dt_meta", FALSE)
        ELSE IF ~Broadcasts(fw.dk, c.K) THEN Fail("type_mask", FALSE)
        ELSE IF ~Broadcasts(T, W) THEN Fail("masked_select", FALSE)
        ELSE IF ~Broadcasts(B, n_batch) THEN Fail("taus", TRUE)
        ELSE LET log_sum == NMc * LogSum(b, c.K, fw, mask)
                 integral_ == IntegralSum(b, src, fw, mask,
                                          RandTensor(r, n_batch, n_times, NMc), NMc)
                 ret == NllReturn(log_sum, integral_, n_batch)
             IN  [err |-> "none", drew |-> TRUE, n_batch |-> n_batch, n_times |-> n_times,
                  res |-> ret.res, integral |-> ret.integral, log_sum |-> ret.log_sum]

---------------------------------------------------------------------------
(* train_epoch, the regularizers of lines 278-307                          *)

\* type_reg_score.masked_select(type_reg_mask[..., k]): the elements of
\* v_alpha, broadcast to (B, T, T, K), at the allowed pairs (i,j) whose
\* trigger event j has type k
GroupSelect(b, K, src, fw, k) ==
    LET T == PadLen(b) - 1
        n == BatchSize(b) * T * T * K
        S(f) == f \div (T * T * K)
        I(f) == (f \div (T * K)) % T
        J(f) == (f \div K) % T
    IN  SelectTo([f \in Idx(n) |-> fw.v_alpha[S(f)][I(f)][J(f)][Bc(f % K, fw.dk)]],
                 [f \in Idx(n) |-> src[S(f)][I(f)][J(f)] /\ b[S(f)][J(f)].k = k], n)

\* row r of q.reshape(K, -1)
ReshapeRow(q, K, r) == LET N == Len(q) \div K IN SubSeq(q, r * N + 1, (r + 1) * N)

\* torch.mean(row)
Mean(row) == SeqSum(row) \div Len(row)

\* torch.var(row), the unbiased estimate
Var(row) ==
    LET m == Mean(row)
    IN  SeqSum([x \in 1..Len(row) |-> (row[x] - m) * (row[x] - m)]) \div (Len(row) - 1)

\* one pass of the loop of lines 296-304 for trigger type k
Group(b, K, src, fw, k) ==
    LET q == GroupSelect(b, K, src, fw, k)
    IN  IF Len(q) = 0
        THEN [err |-> "reshape", nelement |-> 0, used |-> FALSE, mean |-> 0, var |-> 0]
        ELSE IF Len(q) > K
        THEN [err |-> "none", nelement |-> Len(q), used |-> TRUE,
              mean |-> Sum([r \in Idx(K) |-> Mean(ReshapeRow(q, K, r))]),
              var |-> Sum([r \in Idx(K) |-> Var(ReshapeRow(q, K, r))])]
        ELSE [err |-> "none", nelement |-> Len(q), used |-> FALSE, mean |-> 0, var |-> 0]

\* lines 292-307: grouptype_reg and groupsparse_reg, or the error raised
Regularizers(b, K, src, fw) ==
    LET g == Dense([k \in Idx(K) |-> Group(b, K, src, fw, k)])
        Fail(e) == [err |-> e, groups |-> g, grouptype_reg |-> 0, groupsparse_reg |-> 0]
    IN  IF ~Broadcasts(fw.dk, K)
        THEN [err |-> "masked_select", groups |-> <<>>, grouptype_reg |-> 0,
              groupsparse_reg |-> 0]
        ELSE IF \E k \in Idx(K) : g[k].err # "none" THEN Fail("reshape")
        ELSE IF \A k \in Idx(K) : ~g[k].used THEN Fail("stack")
        ELSE [err |-> "none", groups |-> g,
              grouptype_reg |-> Sum([k \in Idx(K) |-> g[k].var]),
              groupsparse_reg |-> Sum([k \in Idx(K) |-> g[k].mean])]

\* lines 309-325: the three terms of loss = nll + type_reg + l1_reg
Loss(nll, reg, type_reg, l1_reg) ==
    [nll |-> nll,
     type_reg |-> IF type_reg > 0 THEN type_reg * reg.grouptype_reg ELSE 0,
     l1_reg |-> IF l1_reg > 0 THEN l1_reg * reg.groupsparse_reg ELSE 0]

\* lines 327-330
OptimCalls == <<"zero_grad", "backward", "clip_grad_norm_", "step">>

---------------------------------------------------------------------------
(* get_infectivity, lines 385-417, for a dataloader of one batch           *)

Infectivity(b, K, src, fw) ==
    LET T == PadLen(b) - 1
        n == BatchSize(b) * T * T
        S(f) == f \div (T * T)
        I(f) == (f \div T) % T
        J(f) == f % T
        \* the pair f has a query event (i+1) of type ki and a key event j of type kj
        Cell(f, ki, kj) == b[S(f)][I(f) + 1].k = ki /\ b[S(f)][J(f)].k = kj
        \* v_score_instance: alpha of the pair at the type of its query event
        Score(f) == IF src[S(f)][I(f)][J(f)]
                    THEN fw.v_alpha[S(f)][I(f)][J(f)][b[S(f)][I(f) + 1].k]
                    ELSE 0
        \* count_type = torch.triu(torch.ones(...)) over (j, i)
        Count(f) == IF I(f) >= J(f) THEN 1 ELSE 0
    IN  IF fw.dk # K
        THEN [err |-> "matmul", A |-> <<>>]
        ELSE [err |-> "none",
              A |-> [ki \in Idx(K) |->
                       [kj \in Idx(K) |->
                           [num |-> Sum([f \in Idx(n) |->
                                           IF Cell(f, ki, kj) THEN Score(f) ELSE 0]),
                            den |-> Sum([f \in Idx(n) |->
                                           IF Cell(f, ki, kj) THEN Count(f) ELSE 0]) + 1]]]]

---------------------------------------------------------------------------
(* predict_next_event_type, lines 436-450, for a dataloader of one batch   *)

\* argmax(-1): the first index of a largest element
ArgMax(row) ==
    CHOOSE c \in DOMAIN row :
        /\ \A d \in DOMAIN row : row[d] <= row[c]
        /\ \A d \in DOMAIN row : d < c => row[d] < row[c]

Predict(b, mask, fw, tsv) ==
    LET B == BatchSize(b)
        T == PadLen(b) - 1
        W == Size(mask[0])
        intensities == StateDecay4(fw.v_mu, fw.v_alpha, fw.v_gamma, Dense3(DtArr(b)))
        k_pred == [s \in Idx(B) |-> [i \in Idx(T) |-> ArgMax(intensities[s][i])]]
        truth == [s \in Idx(B) |-> [i \in Idx(T) |-> b[s][i + 1].k]]
    IN  IF Size(tsv) = 0 THEN [err |-> "ts", pred |-> <<>>, truth |-> <<>>]
        ELSE IF Size(tsv[0]) - 2 # T THEN [err |-> "dt_meta", pred |-> <<>>, truth |-> <<>>]
        ELSE IF ~Broadcasts(T, W) THEN [err |-> "masked_select", pred |-> <<>>, truth |-> <<>>]
        ELSE [err |-> "none",
              pred |-> MaskedSelect2(k_pred, B, T, mask, B, W),
              truth |-> MaskedSelect2(truth, B, T, mask, B, W)]

---------------------------------------------------------------------------
(* Generated inputs of the tensor functions: batches of right-padded       *)
(* sequences with non-decreasing timestamps.  The event type does not      *)
(* enter the functions applied to them and is left 0.                      *)

NonDecreasing(f) == \A i, j \in DOMAIN f : i <= j => f[i] <= f[j]

RawTimeSeqs ==
    UNION {{[p \in Idx(n) |-> [t |-> f[p], k |-> 0]] :
                f \in {g \in [Idx(n) -> 0..MaxTime] : NonDecreasing(g)}} : n \in 1..MaxLen}

TimeBatches ==
    {b \in UNION {{collate_fn(X) : X \in [Idx(B) -> RawTimeSeqs]} : B \in 1..MaxSeqs} :
        PadLen(b) >= 2}

\* the state of the model object while only tensor functions are applied
NoModel ==
    /\ cfg = <<>>
    /\ params = 0
    /\ rng = 0
    /\ ts = <<>>
    /\ op = "none"
    /\ out = <<>>
    /\ calls = <<>>
    /\ twice = FALSE
    /\ sameStart = FALSE
    /\ agree = FALSE

TensorInit ==
    /\ batch = <<>>
    /\ src_mask = <<>>
    /\ p_attn = <<>>
    /\ taus = <<>>
    /\ split = <<>>
    /\ stage = "new"
    /\ NoModel

\* MaskBatch.__init__(src, pad, device) on batch[:, 1:, 0]
NewMaskBatch ==
    /\ stage = "new"
    /\ \E b \in TimeBatches :
          /\ batch' = b
          /\ src_mask' = MaskBatch(b)
    /\ stage' = "masked"
    /\ UNCHANGED <<p_attn, taus, split>>
    /\ UNCHANGED modelVars

\* Attention.forward(query, key, value, mask) on the time features of the
\* batch: query = w * x + bias of the query layer, key = x
Attend ==
    /\ stage = "masked"
    /\ \E w \in (-MaxWeight)..MaxWeight, bias \in 0..MaxWeight :
          p_attn' = [s \in DOMAIN batch |->
                        AttentionProbs(Linear1(w, bias, TempFeat(batch)[s]),
                                       Linear1(1, 0, TempFeat(batch)[s]),
                                       src_mask[s])]
    /\ stage' = "attended"
    /\ UNCHANGED <<batch, src_mask, taus, split>>
    /\ UNCHANGED modelVars

\* the sample times of _eval_nll with one sample per pair, every pair
\* drawing the uniform value n / UDen
SampleTaus ==
    /\ stage = "masked"
    /\ \E n \in Idx(UDen) :
          taus' = Taus(batch, src_mask,
                       [s \in DOMAIN batch |->
                           [i \in DOMAIN src_mask[s] |->
                               [j \in DOMAIN src_mask[s] |-> [x \in Idx(1) |-> n]]]])
    /\ stage' = "sampled"
    /\ UNCHANGED <<batch, src_mask, p_attn, split>>
    /\ UNCHANGED modelVars

\* the head split of MultiHeadedAttention.forward on the first sequence, for
\* num_head = H and d_k = dk
SplitHeads ==
    /\ stage = "masked"
    /\ \E H \in 1..MaxHeads, dk \in 1..MaxHeadDim :
          split' = HeadSplit(H, dk, PadLen(batch) - 1, src_mask[0])
    /\ stage' = "split"
    /\ UNCHANGED <<batch, src_mask, p_attn, taus>>
    /\ UNCHANGED modelVars

TensorNext == NewMaskBatch \/ Attend \/ SampleTaus \/ SplitHeads

SpecTensor == TensorInit /\ [][TensorNext]_vars

---------------------------------------------------------------------------
(* The model object and its handlers.  A dataloader yields one batch: a    *)
(* run of consecutive sequences of the dataset, padded by collate_fn.      *)

\* a sequence of EventSeqDataset: rows (time, type), 0-based
EventSeq(q) == [i \in Idx(Len(q)) |-> [t |-> q[i + 1][1], k |-> q[i + 1][2]]]

Dataset ==
    <<EventSeq(<< <<1, 0>>, <<2, 1>>, <<3, 0>> >>),
      EventSeq(<< <<0, 0>>, <<1, 1>>, <<1, 0>> >>),
      EventSeq(<< <<1, 1>>, <<2, 0>> >>),
      EventSeq(<< <<2, 0>>, <<3, 0>> >>)>>

\* the batches DataLoader(dataset, batch_size=n, collate_fn=collate_fn) yields
Batches ==
    UNION {{collate_fn([i \in Idx(n) |-> Dataset[first + i]]) :
                first \in 1..(Len(Dataset) - n + 1)} : n \in 1..MaxBatch}

\* the configurations __init__ accepts, assert d_model % h == 0 (line 99), with
\* hidden_size = embedding_dim + 1 (the width of feat, line 205) and
\* embedding_dim >= 1
Configs ==
    {c \in [K : {NumTypes}, D : 2..MaxHidden, H : 1..MaxHeads] : c.D % c.H = 0}

\* parameter versions, and torch.rand calls made since seeding
Versions == 0..MaxSteps

RandCalls == 0..MaxRandCalls

\* self.ts set by the first forward only and kept afterwards
KeepTs(held, b) == IF held = <<>> THEN ForwardTs(b) ELSE held

\* self.ts = F.pad(event_seqs[:, :, 0], (1, 0)), line 193: held before, set now
SetTs(held, b) == ForwardTs(b)

\* the shape of self.ts, (0, 0) while it is not set
TsShape(t) == IF t = <<>> THEN <<0, 0>> ELSE <<Size(t), Size(t[0])>>

\* the values self.ts takes
TsValues == {<<>>} \cup {ForwardTs(b) : b \in Batches}

\* the tensors a handler builds from the batch before forward
MaskOf == Dense([b \in Batches |-> [src |-> Dense3(MaskBatch(b)), mask |-> Dense2(StepMask(b))]])

\* forward on a batch, for every configuration and parameter version
ForwardOf ==
    Dense([x \in Configs \X Versions \X Batches |->
              Forward(x[1], x[2], x[3], MaskOf[x[3]].src)])

\* the shapes of (v_mu, v_alpha, v_gamma)
Shapes(fw) ==
    IF fw.err # "none" THEN [err |-> fw.err]
    ELSE LET Shape3(x) == <<Size(x), Size(x[0]), Size(x[0][0])>>
             Shape4(x) == <<Size(x), Size(x[0]), Size(x[0][0]), Size(x[0][0][0])>>
         IN  [err |-> "none", v_mu |-> Shape3(fw.v_mu),
              v_alpha |-> Shape4(fw.v_alpha), v_gamma |-> Shape4(fw.v_gamma)]

\* _eval_nll after forward, for self.ts = x[5] and x[3] torch.rand calls made
NllOf ==
    Dense([x \in Configs \X Versions \X RandCalls \X Batches \X TsValues |->
        LET fw == ForwardOf[<<x[1], x[2], x[4]>>]
        IN  IF fw.err # "none" THEN [err |-> fw.err, drew |-> FALSE]
            ELSE EvalNll(x[1], x[4], MaskOf[x[4]].src, MaskOf[x[4]].mask, fw, x[5], x[3])])

\* the regularizers of train_epoch after forward
RegOf ==
    Dense([x \in Configs \X Versions \X Batches |->
        LET fw == ForwardOf[x]
        IN  IF fw.err # "none" THEN [err |-> fw.err]
            ELSE Regularizers(x[3], x[1].K, MaskOf[x[3]].src, fw)])

\* get_infectivity after forward
InfectivityOf ==
    Dense([x \in Configs \X Versions \X Batches |->
        LET fw == ForwardOf[x]
        IN  IF fw.err # "none" THEN [err |-> fw.err]
            ELSE Infectivity(x[3], x[1].K, MaskOf[x[3]].src, fw)])

\* predict_next_event_type after forward, for self.ts = x[4]
PredictOf ==
    Dense([x \in Configs \X Versions \X Batches \X TsValues |->
        LET fw == ForwardOf[<<x[1], x[2], x[3]>>]
        IN  IF fw.err # "none" THEN [err |-> fw.err]
            ELSE Predict(x[3], MaskOf[x[3]].mask, fw, x[4])])

\* the parameter version after the optimizer calls: step writes the parameters
ApplyCalls(p, cs) == p + Cardinality({n \in 1..Len(cs) : cs[n] = "step"})

\* the weights kwargs["type_reg"] and kwargs["l1_reg"]
RegWeights == {0, MaxRegWeight}

Init ==
    /\ batch = <<>>
    /\ src_mask = <<>>
    /\ p_attn = <<>>
    /\ taus = <<>>
    /\ split = <<>>
    /\ stage = "model"
    /\ cfg \in Configs
    /\ params = 0
    /\ rng = 0
    /\ ts = <<>>
    /\ op = "none"
    /\ out = <<>>
    /\ calls = <<>>
    /\ twice = FALSE
    /\ sameStart = FALSE
    /\ agree = [nll |-> TRUE, log_sum |-> TRUE]

\* a handler that is not evaluate ends a run of evaluate calls
NoPair ==
    /\ twice' = FALSE
    /\ sameStart' = FALSE
    /\ agree' = [nll |-> TRUE, log_sum |-> TRUE]

\* the first error of forward, _eval_nll and the regularizers, or "none"
TrainError(nll, reg) == IF nll.err # "none" THEN nll.err ELSE reg.err

\* train_epoch(train_dataloader, optim, type_reg=.., l1_reg=..), no validation
TrainEpoch ==
    /\ stage = "model"
    /\ rng < MaxRandCalls
    /\ \E b \in Batches, type_reg \in RegWeights, l1_reg \in RegWeights :
       \E tsv \in {SetTs(ts, b)} :
       \E fw \in {ForwardOf[<<cfg, params, b>>]},
          nll \in {NllOf[<<cfg, params, rng, b, tsv>>]},
          reg \in {RegOf[<<cfg, params, b>>]} :
       \E err \in {TrainError(nll, reg)} :
          /\ err = "none" => params < MaxSteps
          /\ batch' = b
          /\ src_mask' = MaskOf[b].src
          /\ ts' = tsv
          /\ rng' = IF nll.drew THEN rng + 1 ELSE rng
          /\ calls' = IF err = "none" THEN OptimCalls ELSE <<>>
          /\ params' = ApplyCalls(params, calls')
          /\ out' = [err |-> err, p |-> params, r |-> rng, held |-> TsShape(ts),
                     fwd |-> Shapes(fw),
                     nll |-> nll,
                     reg |-> IF nll.err = "none" THEN reg ELSE <<>>,
                     loss |-> IF err = "none"
                              THEN Loss(nll.res, reg, type_reg, l1_reg)
                              ELSE <<>>]
    /\ op' = "train_epoch"
    /\ NoPair
    /\ UNCHANGED <<p_attn, taus, split, stage, cfg>>

\* evaluate(dataloader)
Evaluate ==
    /\ stage = "model"
    /\ rng < MaxRandCalls
    /\ \E b \in Batches :
       \E tsv \in {SetTs(ts, b)} :
       \E fw \in {ForwardOf[<<cfg, params, b>>]},
          nll \in {NllOf[<<cfg, params, rng, b, tsv>>]} :
       \E again \in {op = "evaluate" /\ out.err = "none" /\ nll.err = "none"
                         /\ batch = b /\ out.p = params} :
          /\ batch' = b
          /\ src_mask' = MaskOf[b].src
          /\ ts' = tsv
          /\ rng' = IF nll.drew THEN rng + 1 ELSE rng
          /\ out' = [err |-> nll.err, p |-> params, r |-> rng, held |-> TsShape(ts),
                     fwd |-> Shapes(fw),
                     nll |-> nll,
                     metrics |-> IF nll.err = "none"
                                 THEN [nll |-> nll.res, log_sum |-> nll.log_sum]
                                 ELSE <<>>]
          /\ twice' = again
          /\ sameStart' = (again /\ out.r = rng)
          /\ agree' = [nll |-> again => out.metrics.nll = nll.res,
                       log_sum |-> again => out.metrics.log_sum = nll.log_sum]
    /\ op' = "evaluate"
    /\ calls' = <<>>
    /\ UNCHANGED <<p_attn, taus, split, stage, cfg, params>>

\* get_infectivity(dataloader)
GetInfectivity ==
    /\ stage = "model"
    /\ \E b \in Batches :
       \E fw \in {ForwardOf[<<cfg, params, b>>]},
          inf \in {InfectivityOf[<<cfg, params, b>>]} :
          /\ batch' = b
          /\ src_mask' = MaskOf[b].src
          /\ ts' = SetTs(ts, b)
          /\ out' = [err |-> inf.err, p |-> params, r |-> rng, held |-> TsShape(ts),
                     fwd |-> Shapes(fw),
                     A |-> inf]
    /\ op' = "get_infectivity"
    /\ calls' = <<>>
    /\ NoPair
    /\ UNCHANGED <<p_attn, taus, split, stage, cfg, params, rng>>

\* predict_next_event_type(dataloader)
PredictNextEventType ==
    /\ stage = "model"
    /\ \E b \in Batches :
       \E tsv \in {SetTs(ts, b)} :
       \E fw \in {ForwardOf[<<cfg, params, b>>]},
          pr \in {PredictOf[<<cfg, params, b, tsv>>]} :
          /\ batch' = b
          /\ src_mask' = MaskOf[b].src
          /\ ts' = tsv
          /\ out' = [err |-> pr.err, p |-> params, r |-> rng, held |-> TsShape(ts),
                     fwd |-> Shapes(fw),
                     types |-> pr]
    /\ op' = "predict_next_event_type"
    /\ calls' = <<>>
    /\ NoPair
    /\ UNCHANGED <<p_attn, taus, split, stage, cfg, params, rng>>

\* torch.manual_seed(seed) by the caller: the generator restarts its stream
ManualSeed ==
    /\ stage = "model"
    /\ rng # 0
    /\ rng' = 0
    /\ UNCHANGED <<batch, src_mask, p_attn, taus, split, stage, cfg, params, ts, op, out,
                   calls, twice, sameStart, agree>>

Next == TrainEpoch \/ Evaluate \/ GetInfectivity \/ PredictNextEventType \/ ManualSeed

Spec == Init /\ [][Next]_vars

---------------------------------------------------------------------------
(* C1: for every batch and every b, i, j the mask of make_std_mask is      *)
(* paddingMask(b,i) AND paddingMask(b,j) AND (j <= i): it is false         *)
(* whenever j > i or position i or j holds the pad value 0.                *)

C1_MaskCausalAndPadding ==
    stage # "new" =>
        \A b \in DOMAIN batch : \A i, j \in Idx(PadLen(batch) - 1) :
            /\ src_mask[b][i][j] =
                  (batch[b][i + 1].t # 0 /\ batch[b][j + 1].t # 0 /\ j <= i)
            /\ (j > i \/ batch[b][i + 1].t = 0 \/ batch[b][j + 1].t = 0)
                  => ~src_mask[b][i][j]

\* a sequence with a padding position and an allowed pair off the diagonal
C1_Witness ==
    /\ stage = "masked"
    /\ \E b \in DOMAIN batch : \E i, j \in Idx(PadLen(batch) - 1) :
          j < i /\ src_mask[b][i][j] /\ ~src_mask[b][j][i]
    /\ \E b \in DOMAIN batch : \E i \in Idx(PadLen(batch) - 1) :
          batch[b][i + 1].t = 0 /\ ~src_mask[b][i][i]

---------------------------------------------------------------------------
(* C5: for every valid (non-pad) query position i the attention            *)
(* probabilities sum to 1 over the keys the mask allows and are exactly 0  *)
(* at every key it disallows.                                              *)

C5_AttentionRows ==
    stage = "attended" =>
        \A s \in DOMAIN batch : \A i \in Idx(PadLen(batch) - 1) :
            batch[s][i + 1].t # 0 =>
                LET row == p_attn[s][i]
                    allowed == [j \in DOMAIN row |->
                                   IF src_mask[s][i][j] THEN row[j].num ELSE 0]
                IN  /\ row[i].den > 0
                    /\ Sum(allowed) = row[i].den
                    /\ \A j \in DOMAIN row : ~src_mask[s][i][j] => row[j].num = 0

\* a valid query with two allowed keys of different non-zero probability, and
\* a valid query with a disallowed key
C5_Witness ==
    /\ stage = "attended"
    /\ \E s \in DOMAIN batch : \E i, j \in Idx(PadLen(batch) - 1) :
          /\ j < i /\ src_mask[s][i][j]
          /\ p_attn[s][i][j].num > 0
          /\ p_attn[s][i][i].num > p_attn[s][i][j].num
          /\ ~src_mask[s][j][i] /\ p_attn[s][j][i].num = 0

---------------------------------------------------------------------------
(* C10: for every pair (i,j) allowed by src_mask, dtArr = dtMeta +         *)
(* dtOffset with dtMeta = dtSeq[i] = t[i+1] - t[i] and dtOffset =          *)
(* t[i] - t[j] >= 0, so every sample time lies between t[i] - t[j] and     *)
(* t[i+1] - t[j]; for a disallowed pair dtMeta and dtOffset are 0.         *)

C10_SampleTimesInInterval ==
    stage = "sampled" =>
        \A s \in DOMAIN batch : \A i, j \in Idx(PadLen(batch) - 1) :
            LET t == [p \in DOMAIN batch[s] |-> batch[s][p].t]
                a == DtArr(batch)[s][i][j]
                m == DtMeta(batch, src_mask)[s][i][j]
                o == DtOffset(batch, src_mask)[s][i][j]
            IN  IF src_mask[s][i][j]
                THEN /\ a = m + o
                     /\ m = DtSeq(batch)[s][i]
                     /\ m = t[i + 1] - t[i]
                     /\ o = t[i] - t[j]
                     /\ o >= 0
                     /\ \A n \in DOMAIN taus[s][i][j] :
                           /\ (t[i] - t[j]) * UDen <= taus[s][i][j][n]
                           /\ taus[s][i][j][n] <= (t[i + 1] - t[j]) * UDen
                ELSE m = 0 /\ o = 0

\* an allowed pair with an earlier key and a positive offset, a sample
\* strictly inside a non-empty interval, and a disallowed pair
C10_Witness ==
    /\ stage = "sampled"
    /\ \E s \in DOMAIN batch : \E i, j \in Idx(PadLen(batch) - 1) :
          j < i /\ src_mask[s][i][j] /\ DtOffset(batch, src_mask)[s][i][j] > 0
    /\ \E s \in DOMAIN batch : \E i \in Idx(PadLen(batch) - 1) :
          /\ src_mask[s][i][i]
          /\ taus[s][i][i][0] > 0
          /\ taus[s][i][i][0] < DtSeq(batch)[s][i] * UDen
    /\ \E s \in DOMAIN batch : \E i, j \in Idx(PadLen(batch) - 1) :
          ~src_mask[s][i][j] /\ DtArr(batch)[s][i][j] > 0

---------------------------------------------------------------------------
(* C3: for every even head count H the vector fed to the excitation head   *)
(* for alpha[b,i,j,:] is the concatenation over the heads h in [0, H/2) of *)
(* attn[b,h,i,j] * value[b,h,j,:], the vector fed to the decay head the    *)
(* same over the heads in [H/2, H): the reshape keeps the pair (i,j) of    *)
(* every element; entries at pairs the mask disallows are 0 in both.       *)

C3_HeadSplitKeepsPairs ==
    (stage = "split" /\ split.H % 2 = 0) =>
        /\ split.err = "none"
        /\ \A i, j \in Idx(PadLen(batch) - 1) :
              IF src_mask[0][i][j]
              THEN /\ split.v_alpha[i][j].live
                   /\ split.v_gamma[i][j].live
                   /\ \A c \in Idx(HalfHeads(split.H) * split.dk) :
                         /\ split.v_alpha[i][j].in[c] =
                               HeadTerm(c \div split.dk, i, j, c % split.dk)
                         /\ split.v_gamma[i][j].in[c] =
                               HeadTerm(HalfHeads(split.H) + c \div split.dk, i, j,
                                        c % split.dk)
              ELSE ~split.v_alpha[i][j].live /\ ~split.v_gamma[i][j].live


---------------------------------------------------------------------------
(* C2: in every intensity evaluated with state_decay for step i and type   *)
(* k, at the observed gaps (_eval_nll, predict_next_event_type) and at the *)
(* sampled times (_eval_nll), the excitation sum added to mu[i,k] runs     *)
(* over the keys j of query i, only the keys the mask allows (j <= i, not  *)
(* padding) contribute, and no alpha or gamma entry of another query       *)
(* position enters the intensity of step i.                                *)

\* the intensity of step i the claim describes, dt[i][j] = num(j) / den
KeySumIntensity(mu, alpha, gamma, allowed, num(_), den, c) ==
    Tanh(mu[c] + Sum([j \in DOMAIN allowed |->
                        IF allowed[j]
                        THEN DecayTerm(alpha[j][c], gamma[j][c], num(j), den)
                        ELSE 0]))

C2_ExcitationOverKeys ==
    LET fw == ForwardOf[<<cfg, out.p, batch>>]
        B == BatchSize(batch)
        T == PadLen(batch) - 1
        dt == Dense3(DtArr(batch))
        observed == StateDecay4(fw.v_mu, fw.v_alpha, fw.v_gamma, dt)
        tau == SampleTimes(batch, src_mask, RandTensor(out.r, B, T, NMc), NMc)
        sampled == StateDecay5(fw.v_mu, fw.v_alpha, fw.v_gamma, tau, NMc)
        AtGaps ==
            \A s \in Idx(B), i \in Idx(T), c \in Idx(fw.dk) :
                observed[s][i][c] =
                    KeySumIntensity(fw.v_mu[s][i], fw.v_alpha[s][i], fw.v_gamma[s][i],
                                    src_mask[s][i], LAMBDA j : dt[s][i][j], 1, c)
        AtSamples ==
            \A s \in Idx(B), i \in Idx(T), c \in Idx(fw.dk), n \in Idx(NMc) :
                sampled[s][i][c][n] =
                    KeySumIntensity(fw.v_mu[s][i], fw.v_alpha[s][i], fw.v_gamma[s][i],
                                    src_mask[s][i], LAMBDA j : tau[s][i][j][n], UDen, c)
    IN  /\ (op \in {"evaluate", "train_epoch"} /\ out.nll.err = "none")
            => (AtGaps /\ AtSamples)
        /\ (op = "predict_next_event_type" /\ out.err = "none") => AtGaps

---------------------------------------------------------------------------
(* C4: for every configuration construction accepts (hidden_size divisible *)
(* by num_head, hidden_size = 1 + embedding_dim) a forward pass on a batch *)
(* of B sequences of padded length L completes without error and returns  *)
(* mu of shape (B, L-1, K) and alpha and gamma of shape (B, L-1, L-1, K),  *)
(* K = n_types.                                                            *)

C4_ForwardCompletes ==
    op # "none" =>
        LET B == BatchSize(batch)
            T == PadLen(batch) - 1
        IN  /\ out.fwd.err = "none"
            /\ out.fwd.v_mu = <<B, T, cfg.K>>
            /\ out.fwd.v_alpha = <<B, T, T, cfg.K>>
            /\ out.fwd.v_gamma = <<B, T, T, cfg.K>>

---------------------------------------------------------------------------
(* C6: calling evaluate twice in a row on the same data with the same      *)
(* parameters yields the identical NLL metric: the second call's result    *)
(* does not depend on the first call having run.                           *)

---------------------------------------------------------------------------
(* C7: in train_epoch, for every batch, a trigger-type group that is       *)
(* degenerate (fewer selected alpha elements than the number of types, the *)
(* empty group of a type that never occurs as a trigger included) is       *)
(* skipped without raising an error and contributes nothing to either      *)
(* regularizer, also when every group of the batch is degenerate.          *)

C7_DegenerateGroupsSkipped ==
    (op = "train_epoch" /\ out.nll.err = "none") =>
        /\ out.reg.err = "none"
        /\ \A k \in Idx(cfg.K) :
              out.reg.groups[k].nelement < cfg.K =>
                  /\ ~out.reg.groups[k].used
                  /\ out.reg.groups[k].mean = 0
                  /\ out.reg.groups[k].var = 0

---------------------------------------------------------------------------
(* C8: the parameters are written exactly once per training batch, by the  *)
(* optimizer step, which for every batch comes after zero_grad, backward   *)
(* and the gradient-norm clip in that order; evaluate, get_infectivity and *)
(* predict_next_event_type never call backward or step and leave the       *)
(* parameters unchanged.                                                   *)

\* the position of call x in cs when it occurs exactly once, else 0
Once(cs, x) ==
    IF Cardinality({n \in 1..Len(cs) : cs[n] = x}) = 1
    THEN CHOOSE n \in 1..Len(cs) : cs[n] = x
    ELSE 0

C8_ParametersWrittenOncePerBatch ==
    /\ op = "train_epoch" =>
          /\ params = out.p + 1
          /\ 0 < Once(calls, "zero_grad")
          /\ Once(calls, "zero_grad") < Once(calls, "backward")
          /\ Once(calls, "backward") < Once(calls, "clip_grad_norm_")
          /\ Once(calls, "clip_grad_norm_") < Once(calls, "step")
          /\ Once(calls, "step") = Len(calls)
    /\ op \in {"evaluate", "get_infectivity", "predict_next_event_type"} =>
          /\ params = out.p
          /\ \A n \in 1..Len(calls) : calls[n] \notin {"backward", "step"}

---------------------------------------------------------------------------
(* C9: in every sequence of train_epoch, evaluate, get_infectivity and     *)
(* predict_next_event_type calls over batches of differing sizes and       *)
(* lengths, the loss _eval_nll returns for a batch is (-logLikelihoodSum + *)
(* integralSum) divided by the number of sequences of that same batch, and *)
(* its n_times is that batch's length minus 1: self.ts always belongs to   *)
(* the batch being evaluated; the returned loss equals the sum of the two  *)
(* returned sub-terms.                                                     *)

C9_LossOverThisBatch ==
    /\ op # "none" => ts = ForwardTs(batch)
    /\ (op \in {"evaluate", "train_epoch"} /\ out.nll.err = "none") =>
          /\ out.nll.n_batch = BatchSize(batch)
          /\ out.nll.n_times = PadLen(batch) - 1
          /\ out.nll.res.den = BatchSize(batch)
          /\ out.nll.integral.den = BatchSize(batch)
          /\ out.nll.log_sum.den = BatchSize(batch)
          /\ out.nll.res.num = out.nll.log_sum.num + out.nll.integral.num

C9_Witness ==
    /\ op \in {"evaluate", "train_epoch"}
    /\ out.nll.err = "none"
    /\ out.held[1] # 0
    /\ out.held[1] # BatchSize(batch)
    /\ out.held[2] = PadLen(batch) + 1

---------------------------------------------------------------------------
(* C11: for every batch of right-padded sequences whose real events have   *)
(* non-negative, non-decreasing timestamps and types in [0, K), a first    *)
(* event (0, 0) included, the per-step mask that reduces the NLL agrees    *)
(* with the causal+padding mask, mask[b,i] = src_mask[b,i,i] for all b, i, *)
(* and both are true exactly at the steps whose target event i+1 is a real *)
(* event.                                                                  *)

\* the number of real events of every sequence of batch b of the dataloader
RealLength(b) ==
    LET Window(first, n) == [i \in Idx(n) |-> Dataset[first + i]]
        w == CHOOSE w \in UNION {{Window(first, n) :
                                     first \in 1..(Len(Dataset) - n + 1)} :
                                 n \in 1..MaxBatch} : collate_fn(w) = b
    IN  [s \in DOMAIN w |-> Size(w[s])]

C11_StepMaskAgreesWithSrcMask ==
    op \in {"train_epoch", "evaluate", "predict_next_event_type"} =>
        LET mask == MaskOf[batch].mask
            T == PadLen(batch) - 1
            real == RealLength(batch)
        IN  \A s \in Idx(BatchSize(batch)) :
               /\ Size(mask[s]) = T
               /\ \A i \in Idx(T) :
                     /\ mask[s][i] = src_mask[s][i][i]
                     /\ mask[s][i] <=> (i + 1 < real[s])

---------------------------------------------------------------------------
(* C12: in get_infectivity the pairwise count that normalises a cell       *)
(* counts only the pairs (key j, query i) with j <= i in which both events *)
(* are real events of the cell's source and target types: padding          *)
(* positions add to neither the summed alpha contributions nor the counts, *)
(* so appending all-zero padding rows to the sequences of a batch leaves   *)
(* the returned K x K matrix unchanged.                                    *)

\* batch b with one more all-zero row appended to every sequence
PadRows(b) ==
    [s \in DOMAIN b |->
        [p \in Idx(PadLen(b) + 1) |-> IF p < PadLen(b) THEN b[s][p] ELSE ZeroRow]]

C12_InfectivityIgnoresPadding ==
    (op = "get_infectivity" /\ out.err = "none") =>
        LET real == RealLength(batch)
            T == PadLen(batch) - 1
            n == BatchSize(batch) * T * T
            alpha == ForwardOf[<<cfg, out.p, batch>>].v_alpha
            \* pair f = (s, i, j) is a pair of real events with j <= i, the
            \* query event i+1 of type ki and the key event j of type kj
            RealPair(f, ki, kj) ==
                LET s == f \div (T * T)
                    i == (f \div T) % T
                    j == f % T
                IN  /\ j <= i
                    /\ i + 1 < real[s]
                    /\ batch[s][i + 1].k = ki
                    /\ batch[s][j].k = kj
            padded == PadRows(batch)
            src == Dense3(MaskBatch(padded))
        IN  /\ \A ki, kj \in Idx(cfg.K) :
                  /\ out.A.A[ki][kj].den =
                        Sum([f \in Idx(n) |-> IF RealPair(f, ki, kj) THEN 1 ELSE 0]) + 1
                  /\ out.A.A[ki][kj].num =
                        Sum([f \in Idx(n) |->
                               IF RealPair(f, ki, kj)
                               THEN alpha[f \div (T * T)][(f \div T) % T][f % T][ki]
                               ELSE 0])
            /\ Infectivity(padded, cfg.K, src, Forward(cfg, out.p, padded, src)) = out.A

===========================================================================
